---- MODULE Spec2Model ----
(***************************************************************************)
(* The nervous-system component hierarchy of v1_builder.py: components     *)
(* (tree nodes with lateral connections), the three process_signal         *)
(* variants, send_signal's recursive broadcast, the fixed tree of          *)
(* NervousSystemBuilder and the lookup of the demo scripts.                *)
(*                                                                         *)
(* Object identities are positive integers in order of construction; None  *)
(* is 0.  Python floats are modelled as exact decimals num / 10^exp (the   *)
(* only arithmetic of the code is + and multiplication by the literals     *)
(* 0.1, 0.8, 0.9 and 1.2), so IEEE rounding is not part of the model.      *)
(***************************************************************************)
EXTENDS Integers, Sequences, FiniteSets, TLC

VARIABLES
    name,            \* self.name                         [node -> STRING]
    cls,             \* the node's class                  [node -> "Basic" | "Region" | "Cortical"]
    function,        \* BrainRegion.function              [region node -> STRING]
    area_type,       \* CorticalArea.area_type            [cortical node -> STRING]
    parent,          \* self.parent                       [node -> node or None]
    children,        \* self.children                     [node -> Seq(node)]
    connections,     \* self.connections                  [node -> Seq(node)]
    active,          \* self.active                       [node -> BOOLEAN]
    activity_level,  \* BrainRegion.activity_level        [region node -> decimal]
    heap,            \* the NeuralSignal objects, by identity
    signal,          \* the caller's variable `signal` (a heap identity or None)
    receiver,        \* the node the script last called a method on, or looked up (or None)
    output_signals,  \* the list returned by the last process_signal call
    result,          \* what the last get_path call gave ("" before the first)
    stack,           \* the activation records of send_signal, innermost last
    pc,              \* where the calling script stands
    log              \* the calls made so far that the scenario keeps track of

vars == <<name, cls, function, area_type, parent, children, connections, active,
          activity_level, heap, signal, receiver, output_signals, result, stack, pc, log>>

None == 0

-----------------------------------------------------------------------------
(* Bounds of the model.                                                    *)

MaxHeap == 4        \* NeuralSignal objects alive in the signal-processing scenario
MaxLog == 3         \* add_child calls in the tree scenario
MaxEdges == 2       \* add_connection calls in the propagation scenario
Headroom == 1       \* activations the recursion limit allows beyond one per node

-----------------------------------------------------------------------------
(* Floats as exact decimals: [num, exp] stands for num / 10^exp, kept with *)
(* the least exponent, so that equal values are equal records.             *)

RECURSIVE Pow10(_)
Pow10(k) == IF k = 0 THEN 1 ELSE 10 * Pow10(k - 1)

RECURSIVE Norm(_)
Norm(d) ==
    IF d.exp > 0 /\ d.num % 10 = 0
    THEN Norm([num |-> d.num \div 10, exp |-> d.exp - 1])
    ELSE d

\* the float literal whose value is tenths / 10
Lit(tenths) == Norm([num |-> tenths, exp |-> 1])

\* x * y
Times(x, y) == Norm([num |-> x.num * y.num, exp |-> x.exp + y.exp])

\* x + y
Plus(x, y) ==
    LET e == IF x.exp > y.exp THEN x.exp ELSE y.exp
    IN  Norm([num |-> x.num * Pow10(e - x.exp) + y.num * Pow10(e - y.exp), exp |-> e])

\* x < y
Less(x, y) == x.num * Pow10(y.exp) < y.num * Pow10(x.exp)

\* Python's min(a, b): b when b < a, else a
min(a, b) == IF Less(b, a) THEN b ELSE a

-----------------------------------------------------------------------------
(* NeuralSignal and the three process_signal variants.  A call works on    *)
(* m = [heap, activity_level] and returns m changed, with the returned     *)
(* list of signal identities in ret.                                       *)

NeuralSignal(signal_type, strength, data) ==
    [signal_type |-> signal_type, strength |-> strength, data |-> data]

\* BasicNervousSystemComponent.process_signal; every signal is a
\* NeuralSignal, so the hasattr tests succeed
Basic_process_signal(m, self, sig) ==
    LET s == m.heap[sig]
        output_signal == NeuralSignal(s.signal_type, Times(s.strength, Lit(9)), s.data)
    IN  [heap |-> Append(m.heap, output_signal),
         activity_level |-> m.activity_level,
         ret |-> <<Len(m.heap) + 1>>]

\* BrainRegion.process_signal decaying by 0.9, as the basic component does
BrainRegion_process_signal_basic_decay(m, self, sig) ==
    LET s == m.heap[sig]
        level == min(Lit(10), Plus(m.activity_level[self], Times(s.strength, Lit(1))))
        output_signal == NeuralSignal(function[self] \o "_processed",
                                      Times(s.strength, Lit(9)),
                                      "Processed by " \o name[self])
    IN  [heap |-> Append(m.heap, output_signal),
         activity_level |-> [m.activity_level EXCEPT ![self] = level],
         ret |-> <<Len(m.heap) + 1>>]

\* BrainRegion.process_signal without the cap of min(1.0, ...)
BrainRegion_process_signal_uncapped(m, self, sig) ==
    LET s == m.heap[sig]
        level == Plus(m.activity_level[self], Times(s.strength, Lit(1)))
        output_signal == NeuralSignal(function[self] \o "_processed",
                                      Times(s.strength, Lit(8)),
                                      "Processed by " \o name[self])
    IN  [heap |-> Append(m.heap, output_signal),
         activity_level |-> [m.activity_level EXCEPT ![self] = level],
         ret |-> <<Len(m.heap) + 1>>]

BrainRegion_process_signal(m, self, sig) ==
    LET s == m.heap[sig]
        level == min(Lit(10), Plus(m.activity_level[self], Times(s.strength, Lit(1))))
        output_signal == NeuralSignal(function[self] \o "_processed",
                                      Times(s.strength, Lit(8)),
                                      "Processed by " \o name[self])
    IN  [heap |-> Append(m.heap, output_signal),
         activity_level |-> [m.activity_level EXCEPT ![self] = level],
         ret |-> <<Len(m.heap) + 1>>]

\* CorticalArea.process_signal amplifying in a motor area whatever the
\* signal's type is
CorticalArea_process_signal_any_type(m, self, sig) ==
    LET r == BrainRegion_process_signal(m, self, sig)
        first == r.ret[1]
    IN  IF area_type[self] = "motor"
        THEN [r EXCEPT !.heap[first].strength = Times(@, Lit(12))]
        ELSE IF area_type[self] = "sensory"
        THEN [r EXCEPT !.heap[first].strength = Times(@, Lit(9))]
        ELSE r

\* CorticalArea.process_signal rewriting the strength of the signal it was
\* given instead of the one it made
CorticalArea_process_signal_in_place(m, self, sig) ==
    LET r == BrainRegion_process_signal(m, self, sig)
    IN  IF area_type[self] = "motor" /\ r.heap[sig].signal_type = "motor_command"
        THEN [r EXCEPT !.heap[sig].strength = Times(@, Lit(12))]
        ELSE IF area_type[self] = "sensory"
        THEN [r EXCEPT !.heap[sig].strength = Times(@, Lit(9))]
        ELSE r

CorticalArea_process_signal(m, self, sig) ==
    LET r == BrainRegion_process_signal(m, self, sig)
        first == r.ret[1]
    IN  IF area_type[self] = "motor" /\ r.heap[sig].signal_type = "motor_command"
        THEN [r EXCEPT !.heap[first].strength = Times(@, Lit(12))]
        ELSE IF area_type[self] = "sensory"
        THEN [r EXCEPT !.heap[first].strength = Times(@, Lit(9))]
        ELSE r

\* the dynamic dispatch of node.process_signal(signal)
process_signal(m, self, sig) ==
    IF cls[self] = "Cortical" THEN CorticalArea_process_signal(m, self, sig)
    ELSE IF cls[self] = "Region" THEN BrainRegion_process_signal(m, self, sig)
    ELSE Basic_process_signal(m, self, sig)

-----------------------------------------------------------------------------
(* Construction: NervousSystemComponent.__init__ and its subclasses, and   *)
(* add_child / add_connection, on a record g of the node fields.           *)

NoNodes ==
    [name |-> <<>>, cls |-> <<>>, function |-> <<>>, area_type |-> <<>>,
     parent |-> <<>>, children |-> <<>>, connections |-> <<>>, active |-> <<>>,
     activity_level |-> <<>>]

New(c, nm, fn, at, par) == [op |-> "new", cls |-> c, name |-> nm, function |-> fn, area_type |-> at, parent |-> par]

Add(self, child) == [op |-> "add_child", self |-> self, child |-> child]

\* the constructors: the new node's identity is the number of nodes so far + 1
construct(g, s) ==
    LET id == Len(g.name) + 1
    IN  [name |-> Append(g.name, s.name),
         cls |-> Append(g.cls, s.cls),
         parent |-> Append(g.parent, s.parent),
         children |-> Append(g.children, <<>>),
         connections |-> Append(g.connections, <<>>),
         active |-> Append(g.active, TRUE),
         function |-> IF s.cls = "Basic" THEN g.function ELSE g.function @@ (id :> s.function),
         activity_level |-> IF s.cls = "Basic" THEN g.activity_level
                            ELSE g.activity_level @@ (id :> Lit(0)),
         area_type |-> IF s.cls = "Cortical" THEN g.area_type @@ (id :> s.area_type)
                       ELSE g.area_type]

add_child(g, self, child) ==
    [g EXCEPT !.parent[child] = self, !.children[self] = Append(@, child)]

add_connection(g, self, target) ==
    [g EXCEPT !.connections[self] = Append(@, target)]

\* one construction call of a script
step(g, s) == IF s.op = "new" THEN construct(g, s) ELSE add_child(g, s.self, s.child)

\* the construction calls `steps` made in order from g
RECURSIVE run(_, _)
run(g, steps) == IF steps = <<>> THEN g ELSE run(step(g, Head(steps)), Tail(steps))

\* what a get_path call gives: the string returned, or the exception raised
Returned(v) == [raised |-> FALSE, value |-> v]

RecursionError == [raised |-> TRUE, value |-> "RecursionError"]

\* the state with the nodes g constructed, the script at `at`
Start(g, at) ==
        /\ name = g.name
        /\ cls = g.cls
        /\ function = g.function
        /\ area_type = g.area_type
        /\ parent = g.parent
        /\ children = g.children
        /\ connections = g.connections
        /\ active = g.active
        /\ activity_level = g.activity_level
        /\ heap = <<>>
        /\ signal = None
        /\ receiver = None
        /\ output_signals = <<>>
        /\ result = Returned("")
        /\ stack = <<>>
        /\ pc = at
        /\ log = <<>>

Nodes == DOMAIN name

-----------------------------------------------------------------------------
(* Scenario 1 (Spec): a script that constructs one node of every kind,     *)
(* creates signals and calls process_signal on the nodes.                  *)

SignalNodes ==
    << New("Basic", "SpinalCord", "", "", None),
       New("Region", "Cerebellum", "motor_coordination", "", None),
       New("Cortical", "PrimaryMotorCortex", "motor_control", "motor", None),
       New("Cortical", "PrimaryVisualCortex", "vision", "sensory", None),
       New("Cortical", "BrocasArea", "speech_production", "association", None) >>

SignalTypes == {"motor_command", "sensory_input"}

\* tenths: -1.0, 0.8 and 12.0
Strengths == {Lit(-10), Lit(8), Lit(120)}

Init == Start(run(NoNodes, SignalNodes), "signals")

\* signal = NeuralSignal(signal_type, strength, data)
CreateSignal(t, s, d) ==
    /\ pc = "signals"
    /\ Len(heap) < MaxHeap
    /\ heap' = Append(heap, NeuralSignal(t, s, d))
    /\ signal' = Len(heap) + 1
    /\ UNCHANGED <<name, cls, function, area_type, parent, children, connections,
                   active, activity_level, receiver, output_signals, result, stack, pc, log>>

\* output_signals = n.process_signal(signal)
ProcessSignal(n) ==
    /\ pc = "signals"
    /\ signal # None
    /\ Len(heap) < MaxHeap
    /\ LET r == process_signal([heap |-> heap, activity_level |-> activity_level], n, signal)
       IN  /\ heap' = r.heap
           /\ activity_level' = r.activity_level
           /\ output_signals' = r.ret
    /\ receiver' = n
    /\ UNCHANGED <<name, cls, function, area_type, parent, children, connections,
                   active, signal, result, stack, pc, log>>

Next ==
    \/ \E t \in SignalTypes, s \in Strengths : CreateSignal(t, s, "move_right_hand")
    \/ \E n \in Nodes : ProcessSignal(n)

Spec == Init /\ [][Next]_vars


-----------------------------------------------------------------------------
(* Scenario 2 (TreeSpec): a script that constructs three nodes, the third  *)
(* with a constructor parent as the builder does, then calls add_child     *)
(* and get_path on them in any order.                                      *)

TreeNodes ==
    << New("Basic", "Brain", "", "", None),
       New("Region", "Cerebellum", "motor_coordination", "", None),
       New("Region", "PurkinjeLayer", "integration", "", 2) >>

\* the interpreter's recursion limit: more activations than there are nodes
RecursionLimit == Len(name) + Headroom

\* get_path joining the parent's name, not the parent's path
RECURSIVE get_path_parent_name(_, _)
get_path_parent_name(self, depth) ==
    IF depth = 0 THEN RecursionError
    ELSE IF parent[self] # None
    THEN Returned(name[parent[self]] \o "/" \o name[self])
    ELSE Returned(name[self])

\* get_path with `depth` activations left before the interpreter's
\* recursion limit; a node object is always truthy, so `if self.parent`
\* tests parent against None
RECURSIVE get_path(_, _)
get_path(self, depth) ==
    IF depth = 0 THEN RecursionError
    ELSE IF parent[self] # None
    THEN LET p == get_path(parent[self], depth - 1)
         IN  IF p.raised THEN p ELSE Returned(p.value \o "/" \o name[self])
    ELSE Returned(name[self])

TreeInit == Start(run(NoNodes, TreeNodes), "tree")

\* a.add_child(c)
AddChild(a, c) ==
    /\ pc = "tree"
    /\ Len(log) < MaxLog
    /\ LET g == add_child([parent |-> parent, children |-> children], a, c)
       IN  /\ parent' = g.parent
           /\ children' = g.children
    /\ log' = Append(log, [op |-> "add_child", self |-> a, arg |-> c])
    /\ receiver' = a
    /\ UNCHANGED <<name, cls, function, area_type, connections, active, activity_level,
                   heap, signal, output_signals, result, stack, pc>>

\* n.get_path()
GetPath(n) ==
    /\ pc = "tree"
    /\ receiver' = n
    /\ result' = get_path(n, RecursionLimit)
    /\ UNCHANGED <<name, cls, function, area_type, parent, children, connections, active,
                   activity_level, heap, signal, output_signals, stack, pc, log>>

TreeNext ==
    \/ \E a \in Nodes, c \in Nodes : AddChild(a, c)
    \/ \E n \in Nodes : GetPath(n)

TreeSpec == TreeInit /\ [][TreeNext]_vars

-----------------------------------------------------------------------------
(* Scenario 3 (PropSpec): a script that constructs three nodes, wires      *)
(* connections between them, clears active flags, and then makes one       *)
(* send_signal call, which runs one step at a time on a stack of           *)
(* activation records [self, signal, i, output_signals, j]: i is the       *)
(* position of `connection` in self.connections, j the position of         *)
(* `output_signal` in output_signals (0 before process_signal is called).  *)

PropNodes ==
    << New("Basic", "Brainstem", "", "", None),
       New("Region", "Cerebellum", "motor_coordination", "", None),
       New("Cortical", "PrimaryMotorCortex", "motor_control", "motor", None) >>

RECURSIVE SumLen(_, _)
SumLen(f, k) == IF k = 0 THEN 0 ELSE Len(f[k]) + SumLen(f, k - 1)

Activation(self, sig) == [self |-> self, signal |-> sig, i |-> 1, output_signals |-> <<>>, j |-> 0]

Top == stack[Len(stack)]

SetTop(f) == [stack EXCEPT ![Len(stack)] = f]

PropInit == Start(run(NoNodes, PropNodes), "wiring")

\* a.add_connection(t)
AddConnection(a, t) ==
    /\ pc = "wiring"
    /\ SumLen(connections, Len(connections)) < MaxEdges
    /\ connections' = add_connection([connections |-> connections], a, t).connections
    /\ UNCHANGED <<name, cls, function, area_type, parent, children, active, activity_level,
                   heap, signal, receiver, output_signals, result, stack, pc, log>>

\* n.active = False: the flag is a public attribute, written by the caller
Deactivate(n) ==
    /\ pc = "wiring"
    /\ active[n]
    /\ active' = [active EXCEPT ![n] = FALSE]
    /\ UNCHANGED <<name, cls, function, area_type, parent, children, connections,
                   activity_level, heap, signal, receiver, output_signals, result, stack,
                   pc, log>>

\* signal = NeuralSignal(t, s, d); n.send_signal(signal)
SendSignal(n, t, s, d) ==
    /\ pc = "wiring"
    /\ heap' = Append(heap, NeuralSignal(t, s, d))
    /\ signal' = Len(heap) + 1
    /\ receiver' = n
    /\ stack' = <<Activation(n, Len(heap) + 1)>>
    /\ pc' = "sending"
    /\ UNCHANGED <<name, cls, function, area_type, parent, children, connections, active,
                   activity_level, output_signals, result, log>>

\* the loop is at a connection and `if connection.active` decides
AtConnection ==
    /\ pc = "sending"
    /\ Top.j = 0
    /\ Top.i <= Len(connections[Top.self])

Connection == connections[Top.self][Top.i]

\* send_signal without the test `if connection.active`
ProcessAnyway ==
    /\ AtConnection
    /\ LET r == process_signal([heap |-> heap, activity_level |-> activity_level],
                               Connection, Top.signal)
       IN  /\ heap' = r.heap
           /\ activity_level' = r.activity_level
           /\ stack' = SetTop([Top EXCEPT !.output_signals = r.ret, !.j = 1])
    /\ log' = Append(log, [op |-> "process_signal", self |-> Connection, arg |-> Top.signal])
    /\ UNCHANGED <<name, cls, function, area_type, parent, children, connections, active,
                   signal, receiver, output_signals, result, pc>>

\* if connection.active: output_signals = connection.process_signal(signal)
Process ==
    /\ AtConnection
    /\ active[Connection]
    /\ LET r == process_signal([heap |-> heap, activity_level |-> activity_level],
                               Connection, Top.signal)
       IN  /\ heap' = r.heap
           /\ activity_level' = r.activity_level
           /\ stack' = SetTop([Top EXCEPT !.output_signals = r.ret, !.j = 1])
    /\ log' = Append(log, [op |-> "process_signal", self |-> Connection, arg |-> Top.signal])
    /\ UNCHANGED <<name, cls, function, area_type, parent, children, connections, active,
                   signal, receiver, output_signals, result, pc>>

\* if connection.active fails: on to the next connection
Skip ==
    /\ AtConnection
    /\ ~active[Connection]
    /\ stack' = SetTop([Top EXCEPT !.i = @ + 1])
    /\ UNCHANGED <<name, cls, function, area_type, parent, children, connections, active,
                   activity_level, heap, signal, receiver, output_signals, result, pc, log>>

AtOutput ==
    /\ pc = "sending"
    /\ Top.j >= 1
    /\ Top.j <= Len(Top.output_signals)

\* send_signal passing the output on with self.send_signal, not
\* connection.send_signal
RecurseOnSelf ==
    /\ AtOutput
    /\ Len(stack) < RecursionLimit
    /\ stack' = Append(SetTop([Top EXCEPT !.j = @ + 1]),
                       Activation(Top.self, Top.output_signals[Top.j]))
    /\ UNCHANGED <<name, cls, function, area_type, parent, children, connections, active,
                   activity_level, heap, signal, receiver, output_signals, result, pc, log>>

\* connection.send_signal(output_signal): a new activation
Recurse ==
    /\ AtOutput
    /\ Len(stack) < RecursionLimit
    /\ stack' = Append(SetTop([Top EXCEPT !.j = @ + 1]),
                       Activation(Connection, Top.output_signals[Top.j]))
    /\ UNCHANGED <<name, cls, function, area_type, parent, children, connections, active,
                   activity_level, heap, signal, receiver, output_signals, result, pc, log>>

\* connection.send_signal(output_signal) beyond the recursion limit: the
\* RecursionError unwinds every activation and ends the script
Overflow ==
    /\ AtOutput
    /\ Len(stack) >= RecursionLimit
    /\ stack' = <<>>
    /\ pc' = "RecursionError"
    /\ UNCHANGED <<name, cls, function, area_type, parent, children, connections, active,
                   activity_level, heap, signal, receiver, output_signals, result, log>>

\* the inner loop over output_signals is over: on to the next connection
NextConnection ==
    /\ pc = "sending"
    /\ Top.j > Len(Top.output_signals)
    /\ stack' = SetTop([Top EXCEPT !.i = @ + 1, !.output_signals = <<>>, !.j = 0])
    /\ UNCHANGED <<name, cls, function, area_type, parent, children, connections, active,
                   activity_level, heap, signal, receiver, output_signals, result, pc, log>>

\* the loop over self.connections is over: send_signal returns
Return ==
    /\ pc = "sending"
    /\ Top.j = 0
    /\ Top.i > Len(connections[Top.self])
    /\ stack' = SubSeq(stack, 1, Len(stack) - 1)
    /\ pc' = IF Len(stack) = 1 THEN "returned" ELSE pc
    /\ UNCHANGED <<name, cls, function, area_type, parent, children, connections, active,
                   activity_level, heap, signal, receiver, output_signals, result, log>>

SendStep == Process \/ Skip \/ Recurse \/ Overflow \/ NextConnection \/ Return

PropNext ==
    \/ \E a \in Nodes, t \in Nodes : AddConnection(a, t)
    \/ \E n \in Nodes : Deactivate(n)
    \/ \E n \in Nodes : SendSignal(n, "motor_command", Lit(8), "move_right_hand")
    \/ Process
    \/ Skip
    \/ Recurse
    \/ Overflow
    \/ NextConnection
    \/ Return

PropSpec == PropInit /\ [][PropNext]_vars

\* the interpreter runs a started call to its end
FairSpec == PropSpec /\ WF_vars(SendStep)

-----------------------------------------------------------------------------
(* Scenario 4 (DemoSpec): the demo scripts.  build_complete_system runs as *)
(* the constructor and add_child calls it makes, in the order it makes     *)
(* them; then find_component by a name, get_path of the node found, and    *)
(* one process_signal call on it.                                          *)

BuildSteps == <<
    New("Basic", "NervousSystem", "", "", 0),                                             \* line 116: node 1
    New("Basic", "CentralNervousSystem", "", "", 0),                                      \* line 119: node 2
    Add(1, 2),                                                                            \* line 120
    New("Basic", "Brain", "", "", 0),                                                     \* line 144: node 3
    New("Basic", "Cerebrum", "", "", 0),                                                  \* line 176: node 4
    New("Basic", "CerebralCortex", "", "", 0),                                            \* line 179: node 5
    New("Basic", "FrontalLobe", "", "", 0),                                               \* line 182: node 6
    New("Cortical", "PrimaryMotorCortex", "motor_control", "motor", 6),                   \* line 183: node 7
    New("Cortical", "PrefrontalCortex", "executive_function", "association", 6),          \* line 184: node 8
    New("Cortical", "BrocasArea", "speech_production", "association", 6),                 \* line 185: node 9
    Add(6, 7),                                                                            \* line 186
    Add(6, 8),                                                                            \* line 187
    Add(6, 9),                                                                            \* line 188
    Add(5, 6),                                                                            \* line 189
    New("Basic", "ParietalLobe", "", "", 0),                                              \* line 192: node 10
    New("Cortical", "PrimarySomatosensoryCortex", "touch_processing", "sensory", 10),     \* line 193: node 11
    New("Cortical", "PosteriorParietalCortex", "spatial_processing", "association", 10),  \* line 194: node 12
    Add(10, 11),                                                                          \* line 195
    Add(10, 12),                                                                          \* line 196
    Add(5, 10),                                                                           \* line 197
    New("Basic", "TemporalLobe", "", "", 0),                                              \* line 200: node 13
    New("Cortical", "PrimaryAuditoryCortex", "hearing", "sensory", 13),                   \* line 201: node 14
    New("Cortical", "WernickesArea", "language_comprehension", "association", 13),        \* line 202: node 15
    New("Region", "Hippocampus", "memory_formation", "", 13),                             \* line 203: node 16
    Add(13, 14),                                                                          \* line 204
    Add(13, 15),                                                                          \* line 205
    Add(13, 16),                                                                          \* line 206
    Add(5, 13),                                                                           \* line 207
    New("Basic", "OccipitalLobe", "", "", 0),                                             \* line 210: node 17
    New("Cortical", "PrimaryVisualCortex", "vision", "sensory", 17),                      \* line 211: node 18
    New("Cortical", "VisualAssociationAreas", "visual_processing", "association", 17),    \* line 212: node 19
    Add(17, 18),                                                                          \* line 213
    Add(17, 19),                                                                          \* line 214
    Add(5, 17),                                                                           \* line 215
    Add(4, 5),                                                                            \* line 217
    New("Basic", "WhiteMatter", "", "", 0),                                               \* line 220: node 20
    New("Region", "CorpusCallosum", "interhemispheric_communication", "", 20),            \* line 221: node 21
    New("Region", "InternalCapsule", "projection_fibers", "", 20),                        \* line 222: node 22
    Add(20, 21),                                                                          \* line 223
    Add(20, 22),                                                                          \* line 224
    Add(4, 20),                                                                           \* line 225
    Add(3, 4),                                                                            \* line 148
    New("Region", "Cerebellum", "motor_coordination", "", 0),                             \* line 151: node 23
    New("Region", "PurkinjeLayer", "integration", "", 23),                                \* line 152: node 24
    New("Region", "GranuleLayer", "input_processing", "", 23),                            \* line 153: node 25
    New("Region", "MolecularLayer", "output_processing", "", 23),                         \* line 154: node 26
    Add(23, 24),                                                                          \* line 155
    Add(23, 25),                                                                          \* line 156
    Add(23, 26),                                                                          \* line 157
    Add(3, 23),                                                                           \* line 158
    New("Basic", "Brainstem", "", "", 0),                                                 \* line 231: node 27
    New("Region", "Medulla", "vital_functions", "", 0),                                   \* line 234: node 28
    New("Region", "RespiratoryCenter", "breathing_control", "", 28),                      \* line 235: node 29
    New("Region", "CardiacCenter", "heart_rate_control", "", 28),                         \* line 236: node 30
    Add(28, 29),                                                                          \* line 237
    Add(28, 30),                                                                          \* line 238
    Add(27, 28),                                                                          \* line 239
    New("Region", "Pons", "relay_sleep", "", 0),                                          \* line 242: node 31
    New("Region", "PontineNuclei", "motor_relay", "", 31),                                \* line 243: node 32
    New("Region", "SleepWakeCenters", "sleep_regulation", "", 31),                        \* line 244: node 33
    Add(31, 32),                                                                          \* line 245
    Add(31, 33),                                                                          \* line 246
    Add(27, 31),                                                                          \* line 247
    New("Region", "Midbrain", "reflexes_reward", "", 0),                                  \* line 250: node 34
    New("Region", "SuperiorColliculus", "visual_reflexes", "", 34),                       \* line 251: node 35
    New("Region", "SubstantiaNigra", "dopamine_production", "", 34),                      \* line 252: node 36
    Add(34, 35),                                                                          \* line 253
    Add(34, 36),                                                                          \* line 254
    Add(27, 34),                                                                          \* line 255
    Add(3, 27),                                                                           \* line 162
    New("Basic", "Diencephalon", "", "", 0),                                              \* line 261: node 37
    New("Region", "Thalamus", "sensory_relay", "", 0),                                    \* line 264: node 38
    New("Region", "SensoryRelayNuclei", "sensory_processing", "", 38),                    \* line 265: node 39
    New("Region", "MotorRelayNuclei", "motor_processing", "", 38),                        \* line 266: node 40
    Add(38, 39),                                                                          \* line 267
    Add(38, 40),                                                                          \* line 268
    Add(37, 38),                                                                          \* line 269
    New("Region", "Hypothalamus", "homeostasis", "", 0),                                  \* line 272: node 41
    New("Region", "ParaventricularNucleus", "hormone_regulation", "", 41),                \* line 273: node 42
    New("Region", "SuprachiasmaticNucleus", "circadian_rhythm", "", 41),                  \* line 274: node 43
    Add(41, 42),                                                                          \* line 275
    Add(41, 43),                                                                          \* line 276
    Add(37, 41),                                                                          \* line 277
    Add(3, 37),                                                                           \* line 166
    New("Basic", "LimbicSystem", "", "", 0),                                              \* line 283: node 44
    New("Region", "Hippocampus", "memory_formation", "", 0),                              \* line 286: node 45
    New("Region", "DentateGyrus", "pattern_separation", "", 45),                          \* line 287: node 46
    New("Region", "CA1_Field", "memory_output", "", 45),                                  \* line 288: node 47
    New("Region", "CA3_Field", "pattern_completion", "", 45),                             \* line 289: node 48
    Add(45, 46),                                                                          \* line 290
    Add(45, 47),                                                                          \* line 291
    Add(45, 48),                                                                          \* line 292
    Add(44, 45),                                                                          \* line 293
    New("Region", "Amygdala", "fear_emotion", "", 0),                                     \* line 296: node 49
    New("Region", "CentralNucleus", "fear_response", "", 49),                             \* line 297: node 50
    New("Region", "BasolateralComplex", "fear_learning", "", 49),                         \* line 298: node 51
    Add(49, 50),                                                                          \* line 299
    Add(49, 51),                                                                          \* line 300
    Add(44, 49),                                                                          \* line 301
    Add(3, 44),                                                                           \* line 170
    Add(2, 3),                                                                            \* line 124
    New("Basic", "SpinalCord", "", "", 0),                                                \* line 307: node 52
    New("Region", "CervicalRegion", "spinal_processing", "", 0),                          \* line 311: node 53
    Add(52, 53),                                                                          \* line 312
    New("Region", "ThoracicRegion", "spinal_processing", "", 0),                          \* line 311: node 54
    Add(52, 54),                                                                          \* line 312
    New("Region", "LumbarRegion", "spinal_processing", "", 0),                            \* line 311: node 55
    Add(52, 55),                                                                          \* line 312
    New("Region", "SacralRegion", "spinal_processing", "", 0),                            \* line 311: node 56
    Add(52, 56),                                                                          \* line 312
    Add(2, 52),                                                                           \* line 128
    New("Basic", "PeripheralNervousSystem", "", "", 0),                                   \* line 131: node 57
    Add(1, 57),                                                                           \* line 132
    New("Basic", "SomaticNervousSystem", "", "", 0),                                      \* line 318: node 58
    New("Basic", "CranialNerves", "", "", 0),                                             \* line 321: node 59
    New("Region", "Olfactory_I", "peripheral_relay", "", 0),                              \* line 325: node 60
    Add(59, 60),                                                                          \* line 326
    New("Region", "Optic_II", "peripheral_relay", "", 0),                                 \* line 325: node 61
    Add(59, 61),                                                                          \* line 326
    New("Region", "Oculomotor_III", "peripheral_relay", "", 0),                           \* line 325: node 62
    Add(59, 62),                                                                          \* line 326
    New("Region", "Trigeminal_V", "peripheral_relay", "", 0),                             \* line 325: node 63
    Add(59, 63),                                                                          \* line 326
    New("Region", "Facial_VII", "peripheral_relay", "", 0),                               \* line 325: node 64
    Add(59, 64),                                                                          \* line 326
    New("Region", "Vestibulocochlear_VIII", "peripheral_relay", "", 0),                   \* line 325: node 65
    Add(59, 65),                                                                          \* line 326
    New("Region", "Vagus_X", "peripheral_relay", "", 0),                                  \* line 325: node 66
    Add(59, 66),                                                                          \* line 326
    Add(58, 59),                                                                          \* line 327
    New("Basic", "AutonomicNervousSystem", "", "", 0),                                    \* line 333: node 67
    New("Region", "SympatheticNervousSystem", "fight_flight", "", 0),                     \* line 336: node 68
    Add(67, 68),                                                                          \* line 337
    New("Region", "ParasympatheticNervousSystem", "rest_digest", "", 0),                  \* line 340: node 69
    Add(67, 69),                                                                          \* line 341
    Add(57, 58),                                                                          \* line 137
    Add(57, 67)                                                                           \* line 138
>>

\* builder.root, the first node constructed
Root == 1

\* find_component running through root.children from the last child
RECURSIVE find_component(_, _), find_in_children(_, _, _), find_in_children_backwards(_, _, _)
find_in_children_backwards(root, k, nm) ==
    IF k > Len(children[root]) THEN None
    ELSE LET found == find_component(children[root][Len(children[root]) + 1 - k], nm)
         IN  IF found # None THEN found ELSE find_in_children(root, k + 1, nm)

\* find_component of the demo scripts: a node object is always truthy, so
\* `if result` tests result against None
find_component(root, nm) ==
    IF name[root] = nm THEN root ELSE find_in_children(root, 1, nm)

\* the loop `for child in root.children`, from the k-th child on
find_in_children(root, k, nm) ==
    IF k > Len(children[root]) THEN None
    ELSE LET found == find_component(children[root][k], nm)
         IN  IF found # None THEN found ELSE find_in_children(root, k + 1, nm)

\* the names looked up: every name of the tree, and one that is not in it
LookupNames == {name[n] : n \in Nodes} \cup {"Neocortex"}

\* tenths: 0.8 and 12.0
DemoStrengths == {Lit(8), Lit(120)}

\* the node fields as one record, and their next values from one
Graph ==
    [name |-> name, cls |-> cls, function |-> function, area_type |-> area_type,
     parent |-> parent, children |-> children, connections |-> connections,
     active |-> active, activity_level |-> activity_level]

Install(g) ==
    /\ name' = g.name
    /\ cls' = g.cls
    /\ function' = g.function
    /\ area_type' = g.area_type
    /\ parent' = g.parent
    /\ children' = g.children
    /\ connections' = g.connections
    /\ active' = g.active
    /\ activity_level' = g.activity_level

DemoInit == Start(NoNodes, "building")

\* build_complete_system makes its next constructor or add_child call, and
\* returns after the last
Build ==
    /\ pc = "building"
    /\ LET s == BuildSteps[Len(log) + 1]
       IN  /\ Install(step(Graph, s))
           /\ log' = Append(log, s)
    /\ pc' = IF Len(log) + 1 = Len(BuildSteps) THEN "built" ELSE pc
    /\ UNCHANGED <<heap, signal, receiver, output_signals, result, stack>>

\* motor_cortex = find_component(root, nm); the scripts pass nervous_system,
\* the root of the tree, and the function takes any node
DemoFind(root, nm) ==
    /\ pc = "built"
    /\ receiver' = find_component(root, nm)
    /\ log' = Append(log, [op |-> "find_component", self |-> root, arg |-> nm])
    /\ pc' = "found"
    /\ UNCHANGED <<name, cls, function, area_type, parent, children, connections, active,
                   activity_level, heap, signal, output_signals, result, stack>>

\* print(motor_cortex.get_path()): an AttributeError when nothing was found
DemoGetPath ==
    /\ pc = "found"
    /\ IF receiver = None
       THEN pc' = "AttributeError" /\ result' = result
       ELSE pc' = "printed" /\ result' = get_path(receiver, RecursionLimit)
    /\ UNCHANGED <<name, cls, function, area_type, parent, children, connections, active,
                   activity_level, heap, signal, receiver, output_signals, stack, log>>

\* signal = NeuralSignal(signal_type=t, strength=s, data=d)
DemoCreateSignal(t, s, d) ==
    /\ pc = "printed"
    /\ heap' = Append(heap, NeuralSignal(t, s, d))
    /\ signal' = Len(heap) + 1
    /\ pc' = "signalled"
    /\ UNCHANGED <<name, cls, function, area_type, parent, children, connections, active,
                   activity_level, receiver, output_signals, result, stack, log>>

\* output_signals = motor_cortex.process_signal(signal)
DemoProcess ==
    /\ pc = "signalled"
    /\ LET r == process_signal([heap |-> heap, activity_level |-> activity_level],
                               receiver, signal)
       IN  /\ heap' = r.heap
           /\ activity_level' = r.activity_level
           /\ output_signals' = r.ret
    /\ pc' = "processed"
    /\ UNCHANGED <<name, cls, function, area_type, parent, children, connections, active,
                   signal, receiver, result, stack, log>>

DemoNext ==
    \/ Build
    \/ \E root \in Nodes, nm \in LookupNames : DemoFind(root, nm)
    \/ DemoGetPath
    \/ \E t \in SignalTypes, s \in DemoStrengths : DemoCreateSignal(t, s, "move_right_hand")
    \/ DemoProcess

DemoSpec == DemoInit /\ [][DemoNext]_vars

-----------------------------------------------------------------------------
(* Properties of process_signal, checked under Spec.                       *)

\* the last thing the script did was a process_signal call on `receiver`
\* with `signal`: its output is the newest object of the heap
JustProcessed ==
    /\ pc = "signals"
    /\ receiver # None
    /\ output_signals = <<Len(heap)>>

IsRegion(n) == cls[n] \in {"Region", "Cortical"}

\* a + s * 0.1 as an integer number of 10^-e, e being ScaleOf(a, s)
ScaleOf(a, s) == IF a.exp > s.exp + 1 THEN a.exp ELSE s.exp + 1

SumAtScale(a, s) ==
    a.num * Pow10(ScaleOf(a, s) - a.exp) + s.num * Pow10(ScaleOf(a, s) - s.exp - 1)

\* C1: one process_signal call on a Region node (BrainRegion or
\* CorticalArea) with a signal of strength s sets activity_level to
\* min(1.0, activity_level + s * 0.1): to the sum when the sum is below 1.0
\* and to 1.0 otherwise; and no activity_level ever exceeds 1.0.
C1_ActivityIsCappedSum ==
    [][ /\ \A n \in Nodes :
              (ProcessSignal(n) /\ IsRegion(n)) =>
                  LET a == activity_level[n]
                      s == heap[signal].strength
                      after == activity_level'[n]
                  IN  IF SumAtScale(a, s) < Pow10(ScaleOf(a, s))
                      THEN after.num * Pow10(ScaleOf(a, s)) = SumAtScale(a, s) * Pow10(after.exp)
                      ELSE after.num = 1 /\ after.exp = 0
        /\ \A n \in DOMAIN activity_level' :
              activity_level'[n].num <= Pow10(activity_level'[n].exp)
      ]_vars

\* a Region node that had processed a signal before took one of strength
\* 12.0, which carried the sum over 1.0, and stands at 1.0
C1_Witness ==
    /\ JustProcessed
    /\ cls[receiver] = "Region"
    /\ heap[signal].strength = Lit(120)
    /\ activity_level[receiver] = Lit(10)
    /\ \E i \in DOMAIN heap : i < signal /\ heap[i].data = "Processed by " \o name[receiver]

\* C2: across process_signal calls with strengths of any magnitude and
\* sign, activity_level never decreases and stays within [0, 1].
C2_MonotoneWithinUnit ==
    [][ \A n \in DOMAIN activity_level :
            /\ ~Less(activity_level'[n], activity_level[n])
            /\ activity_level'[n].num >= 0
            /\ activity_level'[n].num <= Pow10(activity_level'[n].exp)
      ]_vars

\* the factor, in tenths, that a cortical area applies on top of 0.8
Modifier(n, signal_type) ==
    IF area_type[n] = "motor" /\ signal_type = "motor_command" THEN 12
    ELSE IF area_type[n] = "sensory" THEN 9
    ELSE 10

\* C5: process_signal on a CorticalArea returns exactly one signal, of type
\* "<function>_processed", data "Processed by <name>" and strength
\* s * 0.8 * m, with m = 1.2 for a motor area given a "motor_command",
\* m = 0.9 for a sensory area, and m = 1 otherwise.
C5_CorticalOutput ==
    (JustProcessed /\ cls[receiver] = "Cortical") =>
        /\ Len(output_signals) = 1
        /\ LET in == heap[signal]
               out == heap[output_signals[1]]
           IN  /\ out.signal_type = function[receiver] \o "_processed"
               /\ out.data = "Processed by " \o name[receiver]
               /\ out.strength.num * 100 * Pow10(in.strength.exp)
                    = in.strength.num * 8 * Modifier(receiver, in.signal_type)
                        * Pow10(out.strength.exp)

\* a motor area was given a signal that is not a motor command, and did
\* not amplify it: 0.8 in, 0.64 out
C5_Witness ==
    /\ JustProcessed
    /\ cls[receiver] = "Cortical"
    /\ area_type[receiver] = "motor"
    /\ heap[signal].signal_type = "sensory_input"
    /\ heap[signal].strength = Lit(8)
    /\ heap[output_signals[1]].strength = [num |-> 64, exp |-> 2]

\* C10: a process_signal call leaves every signal there was (the one it is
\* given among them) as it was and returns fresh ones; it leaves every
\* node's name, parent, children, connections and active flag as they
\* were; and the only activity_level it may change is the receiver's, and
\* only when the receiver is a Region or a CorticalArea.
C10_ProcessSignalFrame ==
    [][ \A n \in Nodes :
            ProcessSignal(n) =>
                /\ \A i \in DOMAIN heap : heap'[i] = heap[i]
                /\ \A k \in DOMAIN output_signals' : output_signals'[k] \notin DOMAIN heap
                /\ name' = name
                /\ parent' = parent
                /\ children' = children
                /\ connections' = connections
                /\ active' = active
                /\ DOMAIN activity_level' = DOMAIN activity_level
                /\ \A k \in DOMAIN activity_level :
                       activity_level'[k] # activity_level[k] => (k = n /\ IsRegion(n))
      ]_vars

\* a sensory area attenuated a fresh signal: the signal it was given still
\* has its strength, and only that area's level has moved
C10_Witness ==
    /\ JustProcessed
    /\ cls[receiver] = "Cortical"
    /\ area_type[receiver] = "sensory"
    /\ heap[signal].strength = Lit(8)
    /\ output_signals[1] # signal
    /\ heap[output_signals[1]].strength = [num |-> 576, exp |-> 3]
    /\ \A k \in DOMAIN activity_level : (activity_level[k] # Lit(0)) <=> (k = receiver)

-----------------------------------------------------------------------------
(* Properties of add_child and get_path, checked under TreeSpec.           *)

Members(seq) == {seq[i] : i \in DOMAIN seq}

\* the sequences of at most as many nodes as there are
Chains == UNION {[1..k -> Nodes] : k \in 1..Len(name)}

\* c leads from a node without parent down the parent pointers to n
IsChainTo(c, n) ==
    /\ c[Len(c)] = n
    /\ parent[c[1]] = None
    /\ \A i \in 1..(Len(c) - 1) : parent[c[i + 1]] = c[i]

\* following the parent pointers from n ends at a node without parent
Acyclic(n) == \E c \in Chains : IsChainTo(c, n)

ChainTo(n) == CHOOSE c \in Chains : IsChainTo(c, n)

RECURSIVE JoinNames(_)
JoinNames(c) ==
    IF Len(c) = 1 THEN name[c[1]]
    ELSE JoinNames(SubSeq(c, 1, Len(c) - 1)) \o "/" \o name[c[Len(c)]]

\* C3: after a.add_child(c) followed by b.add_child(c), with a and b
\* distinct, c.parent is b, c is in b.children and c is not in a.children.
C3_ReparentingMoves ==
    \A i \in 1..(Len(log) - 1) :
        (/\ i + 1 = Len(log)
         /\ log[i].arg = log[i + 1].arg
         /\ log[i].self # log[i + 1].self) =>
            /\ parent[log[i].arg] = log[i + 1].self
            /\ log[i].arg \in Members(children[log[i + 1].self])
            /\ log[i].arg \notin Members(children[log[i].self])

\* C7: when the parent chain of a node is acyclic, get_path returns the
\* names from the node without parent down to the node, joined by "/":
\* the node's own name when it has no parent, and otherwise what get_path
\* returns for its parent, "/", and its own name.
C7_PathFollowsParents ==
    [][ \A n \in Nodes :
            (GetPath(n) /\ Acyclic(n)) =>
                /\ result' = Returned(JoinNames(ChainTo(n)))
                /\ parent[n] = None => result'.value = name[n]
                /\ parent[n] # None =>
                       result'.value
                         = get_path(parent[n], RecursionLimit).value \o "/" \o name[n]
      ]_vars

\* PurkinjeLayer was added to one node and then to Cerebellum, and
\* Cerebellum to Brain: the path has three names
C7_Witness ==
    /\ pc = "tree"
    /\ Len(log) = 3
    /\ log[1].arg = 3 /\ log[2].arg = 3 /\ log[1].self # log[2].self
    /\ receiver = 3
    /\ result = Returned("Brain/Cerebellum/PurkinjeLayer")

-----------------------------------------------------------------------------
(* Properties of send_signal, checked under PropSpec and FairSpec.  There  *)
(* `receiver` is the node send_signal was called on, `signal` the signal   *)
(* it was called with, and log the process_signal calls it has made.       *)

Targets(n) == Members(connections[n])

\* the nodes one connection away from a node of S; with `live`, only the
\* active ones
Ahead(S, live) == {t \in Nodes : (live => active[t]) /\ \E s \in S : t \in Targets(s)}

RECURSIVE Grow(_, _, _)
Grow(S, live, k) == IF k = 0 THEN S ELSE Grow(S \cup Ahead(S, live), live, k - 1)

\* the nodes one or more connections away from n (with `live`: along
\* connections to active nodes only)
Beyond(n, live) == Grow(Ahead({n}, live), live, Len(name))

\* a cycle of connections can be reached from n
CycleFrom(n, live) == \E c \in {n} \cup Beyond(n, live) : c \in Beyond(c, live)

\* the nodes send_signal processes, in order, when called on n: those of
\* the active connections of n, each followed by what a call on it
\* processes, to `depth` levels
RECURSIVE Broadcast(_, _), BroadcastFrom(_, _, _)
Broadcast(n, depth) == BroadcastFrom(n, 1, depth)

BroadcastFrom(n, i, depth) ==
    IF depth = 0 \/ i > Len(connections[n]) THEN <<>>
    ELSE LET t == connections[n][i]
         IN  (IF active[t] THEN <<t>> \o Broadcast(t, depth - 1) ELSE <<>>)
               \o BroadcastFrom(n, i + 1, depth)

Processed == [i \in DOMAIN log |-> log[i].self]

\* C8: send_signal called on n calls process_signal on active nodes only:
\* on each active entry of n.connections in order, once per entry, the
\* outputs being sent on from that entry in the same way before the next
\* entry is looked at, and on nothing behind an inactive entry.  So no
\* activity_level of an inactive node changes, and every node processed
\* (n itself included) is at the end of connections from n into active
\* nodes.
C8_OnlyActiveProcessed ==
    pc \in {"sending", "returned", "RecursionError"} =>
        /\ \A i \in DOMAIN log :
              /\ active[log[i].self]
              /\ log[i].self \in Beyond(receiver, TRUE)
              /\ \/ log[i].arg = signal /\ log[i].self \in Targets(receiver)
                 \/ \E k \in 1..(i - 1) :
                        /\ log[i].arg = k + 1
                        /\ log[i].self \in Targets(log[k].self)
        /\ \A n \in DOMAIN activity_level : ~active[n] => activity_level[n] = Lit(0)
        /\ pc = "returned" => Processed = Broadcast(receiver, RecursionLimit)

\* a call returned that processed an active node and sent its output on
\* from it, where an inactive Region heads a connection and was left alone
C8_Witness ==
    /\ pc = "returned"
    /\ \E t \in Members(Processed) :
           \E u \in Targets(t) : ~active[u] /\ IsRegion(u) /\ u \notin Members(Processed)

NoCycle(n) == ~CycleFrom(n, FALSE)

NoLiveCycle(n) == ~CycleFrom(n, TRUE)

\* C9 as stated: send_signal called on n returns if and only if no cycle of
\* connections can be reached from n.
C9_ReturnsIffNoCycle ==
    /\ pc = "returned" => NoCycle(receiver)
    /\ pc = "RecursionError" => ~NoCycle(receiver)

\* C9 as amended: send_signal called on n returns if and only if no cycle
\* of connections into active nodes can be reached from n along connections
\* into active nodes; with none it returns after finitely many steps, and
\* with one it recurses until the recursion limit.
C9_ReturnsIffNoLiveCycle ==
    (pc = "sending") ~> \/ pc = "returned" /\ NoLiveCycle(receiver)
                        \/ pc = "RecursionError" /\ ~NoLiveCycle(receiver)

\* a call returned, having processed a node, although the node it was
\* called on is on a cycle: the cycle leads through an inactive node
C9_Witness ==
    /\ pc = "returned"
    /\ Len(log) >= 1
    /\ receiver \in Beyond(receiver, FALSE)
    /\ NoLiveCycle(receiver)

-----------------------------------------------------------------------------
(* Properties of the built system and of find_component, checked under     *)
(* DemoSpec.  There `receiver` is what find_component returned.            *)

\* find_component has been called; Lookup is the name it was called with
Looked == pc \in {"found", "printed", "signalled", "processed", "AttributeError"}

Lookup == log[Len(log)].arg

\* the node it was called with
SearchRoot == log[Len(log)].self

\* the nodes under n, n first, each node before its children and the
\* children in the order of the list
RECURSIVE PreOrder(_), PreOrderOfChildren(_, _)
PreOrder(n) == <<n>> \o PreOrderOfChildren(n, 1)

PreOrderOfChildren(n, k) ==
    IF k > Len(children[n]) THEN <<>>
    ELSE PreOrder(children[n][k]) \o PreOrderOfChildren(n, k + 1)

\* the first node of the sequence `nodes` with the name nm, or None
FirstNamed(nodes, nm) ==
    IF \E i \in DOMAIN nodes : name[nodes[i]] = nm
    THEN nodes[CHOOSE i \in DOMAIN nodes :
                   /\ name[nodes[i]] = nm
                   /\ \A k \in 1..(i - 1) : name[nodes[k]] # nm]
    ELSE None

\* C4: on the built system find_component finds "PrimaryMotorCortex", whose
\* path is NervousSystem/CentralNervousSystem/Brain/Cerebrum/
\* CerebralCortex/FrontalLobe/PrimaryMotorCortex; processing the signal
\* ("motor_command", 0.8, "move_right_hand") on it returns one signal, of
\* type "motor_control_processed" and strength 0.768, and leaves its
\* activity_level at 0.08.
C4_MotorCortexScenario ==
    (Looked /\ SearchRoot = Root /\ Lookup = "PrimaryMotorCortex") =>
        /\ receiver # None
        /\ name[receiver] = "PrimaryMotorCortex"
        /\ pc \in {"printed", "signalled", "processed"} =>
              result = Returned("NervousSystem/CentralNervousSystem/Brain/Cerebrum/CerebralCortex/FrontalLobe/PrimaryMotorCortex")
        /\ (/\ pc = "processed"
            /\ heap[signal] = NeuralSignal("motor_command", Lit(8), "move_right_hand")) =>
              /\ Len(output_signals) = 1
              /\ heap[output_signals[1]].signal_type = "motor_control_processed"
              /\ heap[output_signals[1]].strength = [num |-> 768, exp |-> 3]
              /\ activity_level[receiver] = [num |-> 8, exp |-> 2]

\* the scenario has run to its end
C4_Witness ==
    /\ pc = "processed"
    /\ SearchRoot = Root
    /\ Lookup = "PrimaryMotorCortex"
    /\ heap[signal] = NeuralSignal("motor_command", Lit(8), "move_right_hand")
    /\ Len(output_signals) = 1

\* C6: find_component(root, nm) returns the first node, in depth-first
\* pre-order from root, whose name is nm, and None exactly when no node
\* under root has that name; of the two nodes named "Hippocampus" of the
\* built system it returns the one under TemporalLobe.
C6_FirstInPreOrder ==
    Looked =>
        /\ receiver = FirstNamed(PreOrder(SearchRoot), Lookup)
        /\ receiver = None <=> ~\E n \in Members(PreOrder(SearchRoot)) : name[n] = Lookup
        /\ (SearchRoot = Root /\ Lookup = "Hippocampus") =>
               name[parent[receiver]] = "TemporalLobe"

\* "Hippocampus" was looked up: two nodes have the name, and the one
\* returned is the one that is not under LimbicSystem
C6_Witness ==
    /\ pc = "found"
    /\ SearchRoot = Root
    /\ Lookup = "Hippocampus"
    /\ receiver # None
    /\ \E n \in Nodes : /\ n # receiver
                        /\ name[n] = "Hippocampus"
                        /\ name[parent[n]] = "LimbicSystem"

====
